---- MODULE Spec2Model ----
(***************************************************************************)
(* A model of dnt's transform orchestrator (rs-lib/src/lib.rs) and of the  *)
(* syntactic-context predicates (rs-lib/src/visitors/analyze/helpers.rs).  *)
(*                                                                         *)
(* Strings of the program that the model has to take apart (file texts,    *)
(* synthetic module contents, warnings) are sequences of one-character or  *)
(* one-token strings.  Option<T> is a sequence of length at most one.      *)
(***************************************************************************)
EXTENDS Integers, Sequences, FiniteSets, TLC

\* ------------------------------------------------------------------ bounds

\* Most shims of a configuration (options.shims and options.test_shims together).
MaxShims == 2
\* Most non-selected declaration references of one code module.
MaxIgnored == 2
\* Longest entry-point list.
MaxEntryPoints == 2
\* Longest synthetic module content, in characters.
MaxLen == 4
\* Deepest syntax node below the module node.
MaxDepth == 4

\* ------------------------------------------------------------ basic values

None == <<>>

Some(x) == <<x>>

SeqsUpTo(S, n) == UNION {[1..k -> S] : k \in 0..n}

Contains(seq, x) == \E i \in 1..Len(seq) : seq[i] = x

\* String's Ord on the package names of the model.
NameOrder == <<"@deno/shim-deno", "undici">>

PackageNames == {NameOrder[i] : i \in 1..Len(NameOrder)}

NameRank(n) == CHOOSE i \in 1..Len(NameOrder) : NameOrder[i] = n

Versions == {"1.0.0", "2.0.0"}

MappedSpecifiers == [name : PackageNames, version : {None} \cup {Some(v) : v \in Versions}]

\* The global names each package provides when it is configured as a shim.
ShimGlobalNames(name) == IF name = "undici" THEN <<"fetch">> ELSE <<"Deno">>

Shims == {[package |-> m, global_names |-> ShimGlobalNames(m.name)] : m \in MappedSpecifiers}

GlobalNames == {"fetch", "Deno"}

\* ------------------------------------------------------------- specifiers

ModTs == "file:///mod.ts"

DataJson == "file:///data.json"

ModTestTs == "file:///mod_test.ts"

DepJs == "https://deno.land/x/dep/mod.js"

DepDts == "https://deno.land/x/dep/mod.d.ts"

LocalDts == "file:///dep.d.ts"

OtherTs == "file:///other.ts"

MappedA == "https://esm.sh/a"

MappedB == "https://esm.sh/b"

MappedT == "https://esm.sh/t"

\* ModuleSpecifier's Ord (the canonical string form) on the model's specifiers.
SpecifierOrder == <<LocalDts, DataJson, ModTs, ModTestTs, OtherTs, DepDts, DepJs, MappedA, MappedB, MappedT>>

SpecifierRank(s) == CHOOSE i \in 1..Len(SpecifierOrder) : SpecifierOrder[i] = s

\* Url::scheme of a specifier.
Scheme(s) == IF s \in {ModTs, DataJson, ModTestTs, LocalDts, OtherTs} THEN "file" ELSE "https"

\* The reserved synthetic specifiers of each environment.
SYNTHETIC_SPECIFIERS == [polyfills |-> "dnt:polyfills", shims |-> "dnt:shims"]

SYNTHETIC_TEST_SPECIFIERS == [polyfills |-> "dnt:test_polyfills", shims |-> "dnt:test_shims"]

\* Mappings::get_file_path: the output path of a specifier.
get_file_path(s) ==
  CASE s = ModTs -> "mod.ts"
    [] s = DataJson -> "data.js"
    [] s = ModTestTs -> "mod_test.ts"
    [] s = OtherTs -> "other.ts"
    [] s = LocalDts -> "dep.d.ts"
    [] s = DepJs -> "deps/deno.land/x/dep/mod.js"
    [] s = DepDts -> "deps/deno.land/x/dep/mod.d.ts"
    [] s = SYNTHETIC_SPECIFIERS.polyfills -> "_dnt.polyfills.ts"
    [] s = SYNTHETIC_SPECIFIERS.shims -> "_dnt.shims.ts"
    [] s = SYNTHETIC_TEST_SPECIFIERS.polyfills -> "_dnt.test_polyfills.ts"
    [] s = SYNTHETIC_TEST_SPECIFIERS.shims -> "_dnt.test_shims.ts"

\* utils::get_relative_specifier: the import specifier of the path to, as seen from the path from.
get_relative_specifier(from, to) == <<"rel:", from, "->", to>>

\* ---------------------------------------------------------- dependencies

Dependency(name, version) == [name |-> name, version |-> version]

\* The filter_map of get_dependencies: one entry per mapping that has a version,
\* in the BTreeMap's (key) order.
RECURSIVE VersionedDependencies(_)
VersionedDependencies(mappings) ==
  IF mappings = <<>> THEN <<>>
  ELSE LET entry == Head(mappings)
           rest == VersionedDependencies(Tail(mappings))
       IN IF entry.mapped.version # None
          THEN <<Dependency(entry.mapped.name, entry.mapped.version[1])>> \o rest
          ELSE rest

\* Vec::sort_by(|a, b| a.name.cmp(&b.name)): a stable sort on the name alone.
RECURSIVE SortByName(_)
SortByName(deps) ==
  IF deps = <<>> THEN <<>>
  ELSE LET sorted == SortByName(SubSeq(deps, 1, Len(deps) - 1))
           d == deps[Len(deps)]
           k == Cardinality({i \in 1..Len(sorted) : NameRank(sorted[i].name) <= NameRank(d.name)})
       IN SubSeq(sorted, 1, k) \o <<d>> \o SubSeq(sorted, k + 1, Len(sorted))

get_dependencies(mappings) == SortByName(VersionedDependencies(mappings))

\* --------------------------------------------------------------- outputs

OutputFile(file_path, file_text) == [file_path |-> file_path, file_text |-> file_text]

\* polyfills::build_polyfill_file: a file text when some polyfill is needed.
PolyfillOrder == <<"Object.hasOwn", "String.prototype.replaceAll">>

Polyfills == {PolyfillOrder[i] : i \in 1..Len(PolyfillOrder)}

RECURSIVE PolyfillTexts(_, _)
PolyfillTexts(polyfills, i) ==
  IF i > Len(PolyfillOrder) THEN <<>>
  ELSE (IF PolyfillOrder[i] \in polyfills THEN <<"polyfill ", PolyfillOrder[i], "\n">> ELSE <<>>)
         \o PolyfillTexts(polyfills, i + 1)

build_polyfill_file(polyfills) ==
  IF polyfills = {} THEN None ELSE Some(PolyfillTexts(polyfills, 1))

\* The loop of check_add_polyfill_file_to_environment over the entry points:
\* the first file at the entry point's path gets the import prepended.
RECURSIVE PrependPolyfillImports(_, _, _)
PrependPolyfillImports(files, entry_points, polyfill_file_path) ==
  IF entry_points = <<>> THEN files
  ELSE LET entry_point == Head(entry_points)
           found == {i \in 1..Len(files) : files[i].file_path = entry_point}
       IN IF found = {}
          THEN PrependPolyfillImports(files, Tail(entry_points), polyfill_file_path)
          ELSE LET i == CHOOSE j \in found : \A k \in found : j <= k
                   text == <<"import '">>
                             \o get_relative_specifier(files[i].file_path, polyfill_file_path)
                             \o <<"';\n">> \o files[i].file_text
               IN PrependPolyfillImports([files EXCEPT ![i].file_text = text],
                                         Tail(entry_points), polyfill_file_path)

\* The same with the loop leaving after the first entry point.
check_add_polyfill_file_first_entry_point(env_context, polyfill_file_path) ==
  LET polyfill_file_text == build_polyfill_file(env_context.polyfills)
  IN IF polyfill_file_text = None THEN env_context
     ELSE LET pushed == Append(env_context.environment.files,
                               OutputFile(polyfill_file_path, polyfill_file_text[1]))
              first == SubSeq(env_context.environment.entry_points, 1, 1)
          IN [env_context EXCEPT !.environment.files =
                PrependPolyfillImports(pushed, first, polyfill_file_path)]

check_add_polyfill_file_to_environment(env_context, polyfill_file_path) ==
  LET polyfill_file_text == build_polyfill_file(env_context.polyfills)
  IN IF polyfill_file_text = None THEN env_context
     ELSE LET pushed == Append(env_context.environment.files,
                               OutputFile(polyfill_file_path, polyfill_file_text[1]))
          IN [env_context EXCEPT !.environment.files =
                PrependPolyfillImports(pushed, env_context.environment.entry_points,
                                       polyfill_file_path)]

RECURSIVE JoinNames(_)
JoinNames(names) ==
  IF names = <<>> THEN <<>>
  ELSE IF Len(names) = 1 THEN <<names[1]>>
  ELSE <<names[1], ", ">> \o JoinNames(Tail(names))

RECURSIVE ShimExports(_)
ShimExports(shims) ==
  IF shims = <<>> THEN <<>>
  ELSE <<"export { ">> \o JoinNames(Head(shims).global_names)
         \o <<" } from \"", Head(shims).package.name, "\";\n">> \o ShimExports(Tail(shims))

build_shim_file(shims) ==
  LET text == ShimExports(shims) IN IF text = <<>> THEN <<"export {};\n">> ELSE text

\* The loop of check_add_shim_file_to_environment over the shims: a shim package
\* with a version is pushed unless a dependency of that name is already listed.
RECURSIVE PushShimDependencies(_, _)
PushShimDependencies(dependencies, shims) ==
  IF shims = <<>> THEN dependencies
  ELSE LET shim == Head(shims)
           named == \E i \in 1..Len(dependencies) : dependencies[i].name = shim.package.name
       IN IF ~named /\ shim.package.version # None
          THEN PushShimDependencies(
                 Append(dependencies, Dependency(shim.package.name, shim.package.version[1])),
                 Tail(shims))
          ELSE PushShimDependencies(dependencies, Tail(shims))

check_add_shim_file_to_environment(env_context, shim_file_path) ==
  IF env_context.used_shim
  THEN [env_context EXCEPT
          !.environment.files = Append(@, OutputFile(shim_file_path, build_shim_file(env_context.shims))),
          !.environment.dependencies = PushShimDependencies(@, env_context.shims)]
  ELSE env_context

\* The same filter comparing the names alone.
FilterTestDependenciesByName(test_dependencies, main_dependencies) ==
  SelectSeq(test_dependencies,
            LAMBDA d : ~\E i \in 1..Len(main_dependencies) : main_dependencies[i].name = d.name)

\* The filter at the end of transform: Dependency's derived PartialEq compares
\* the name and the version.
FilterTestDependencies(test_dependencies, main_dependencies) ==
  SelectSeq(test_dependencies, LAMBDA d : ~Contains(main_dependencies, d))

\* ---------------------------------------------------------------- warnings

LocalMessage == "Supress this warning by having only one local file specify the declaration file for this module."

\* (the directive's name stands between backticks in the source)
RemoteMessage == "Supress this warning by specifying a declaration file for this module locally via @deno-types."

get_dep_warning(code_specifier, dep, selected_dep, post_message) ==
  <<"Duplicate declaration file found for ", code_specifier,
    "\n  Specified ", dep.specifier, " in ", dep.referrer,
    "\n  Selected ", selected_dep.specifier, "\n  ", post_message>>

\* The messages of one entry were every non-selected reference warned about, a
\* remote one with the remote message.
DeclarationWarningsOfEveryReference(entry) ==
  LET d == entry.resolution
  IN [i \in 1..Len(d.ignored) |->
        get_dep_warning(entry.code_specifier, d.ignored[i], d.selected,
                        IF Scheme(d.selected.referrer) = "file" /\ Scheme(d.ignored[i].referrer) = "file"
                        THEN LocalMessage ELSE RemoteMessage)]

\* The messages of one entry of specifiers.types.
DeclarationWarningsOf(entry) ==
  LET d == entry.resolution
  IN IF Scheme(d.selected.referrer) = "file"
     THEN LET local_referrers == SelectSeq(d.ignored, LAMBDA dep : Scheme(dep.referrer) = "file")
          IN [i \in 1..Len(local_referrers) |->
                get_dep_warning(entry.code_specifier, local_referrers[i], d.selected, LocalMessage)]
     ELSE [i \in 1..Len(d.ignored) |->
                get_dep_warning(entry.code_specifier, d.ignored[i], d.selected, RemoteMessage)]

RECURSIVE DeclarationWarnings(_)
DeclarationWarnings(types) ==
  IF types = <<>> THEN <<>>
  ELSE DeclarationWarningsOf(Head(types)) \o DeclarationWarnings(Tail(types))

get_declaration_warnings(specifiers) == DeclarationWarnings(specifiers.types)

\* ------------------------------------------------------- synthetic modules

\* The backtick character.
Backtick == "BACKTICK"

Backslash == "\\"

Bom == "BOM"

\* str::replace of the backtick by backslash-backtick: every backtick gets a backslash before it.
RECURSIVE ReplaceBacktick(_)
ReplaceBacktick(s) ==
  IF s = <<>> THEN <<>>
  ELSE IF Head(s) = Backtick THEN <<Backslash, Backtick>> \o ReplaceBacktick(Tail(s))
  ELSE <<Head(s)>> \o ReplaceBacktick(Tail(s))

\* The same replacement escaping every dollar sign.
RECURSIVE ReplaceDollar(_)
ReplaceDollar(s) ==
  IF s = <<>> THEN <<>>
  ELSE IF Head(s) = "$" THEN <<Backslash, "$">> \o ReplaceDollar(Tail(s))
  ELSE <<Head(s)>> \o ReplaceDollar(Tail(s))

\* str::replace("${", "\\${"): the non-overlapping matches, left to right.
RECURSIVE ReplaceInterpolation(_)
ReplaceInterpolation(s) ==
  IF s = <<>> THEN <<>>
  ELSE IF Len(s) >= 2 /\ s[1] = "$" /\ s[2] = "{"
  THEN <<Backslash, "$", "{">> \o ReplaceInterpolation(SubSeq(s, 3, Len(s)))
  ELSE <<Head(s)>> \o ReplaceInterpolation(Tail(s))

\* utils::strip_bom: the text without a leading byte order mark.
strip_bom(text) == IF text # <<>> /\ Head(text) = Bom THEN Tail(text) ELSE text

\* What transform puts between the backticks of the text of a synthetic module.
EmbeddedSource(source) == strip_bom(ReplaceInterpolation(ReplaceBacktick(source)))

SyntheticFileText(source) ==
  <<"export default JSON.parse(", Backtick>> \o EmbeddedSource(source) \o <<Backtick, ");">>

\* ------------------------------------------------------------------ inputs

\* graph::ModuleRef: a parsed module with what the rewrite passes find in it
\* (the globals it references at the top level, the polyfills it needs, whether
\* a pass fails on it, and the warnings of its suppression directives), or a
\* synthetic module with its optional source.
EsModule(globals, polyfills, rewrite_fails, directive_warnings) ==
  [kind |-> "Es", text |-> <<"/* module */">>, globals |-> globals,
   polyfills |-> polyfills, rewrite_fails |-> rewrite_fails,
   directive_warnings |-> directive_warnings]

SyntheticModule(maybe_source) == [kind |-> "Synthetic", maybe_source |-> maybe_source]

TypesDependency(specifier, referrer) == [specifier |-> specifier, referrer |-> referrer]

\* A HashMap<ModuleSpecifier, MappedSpecifier> over some of the keys.
SpecifierMappings(keys) == UNION {[K -> MappedSpecifiers] : K \in SUBSET keys}

\* What the loader serves decides the graph: the model's loader is the graph
\* it leads to.
Loader(local, remote, types, test_modules, test_mapped, modules, load_error) ==
  [local |-> local, remote |-> remote, types |-> types, test_modules |-> test_modules,
   test_mapped |-> test_mapped, modules |-> modules, load_error |-> load_error]

TransformOptions(entry_points, test_entry_points, shims, test_shims, loader, specifier_mappings) ==
  [entry_points |-> entry_points, test_entry_points |-> test_entry_points,
   shims |-> shims, test_shims |-> test_shims, loader |-> loader,
   specifier_mappings |-> specifier_mappings]

\* A module and its test: what each references decides the shims used.
TwoModuleLoader(main_globals, test_globals, test_mapped) ==
  Loader(<<ModTs, ModTestTs>>, <<>>, <<>>, {ModTestTs}, test_mapped,
         (ModTs :> EsModule(main_globals, {}, FALSE, <<>>))
           @@ (ModTestTs :> EsModule(test_globals, {}, FALSE, <<>>)),
         FALSE)

\* The two shim lists of a configuration: MaxShims shims between them.
ShimLists ==
  {l \in SeqsUpTo(Shims, MaxShims) \X SeqsUpTo(Shims, MaxShims) : Len(l[1]) + Len(l[2]) <= MaxShims}

\* Shim configurations against one mapped specifier, of the main or of the test
\* environment.
ShimInputs ==
  {TransformOptions(<<ModTs>>, <<ModTestTs>>, l[1], l[2],
                    TwoModuleLoader(main_globals, test_globals, test_mapped), m) :
     l \in ShimLists,
     main_globals \in {{}, GlobalNames},
     test_globals \in {{}, GlobalNames},
     test_mapped \in {{}, {MappedA}},
     m \in SpecifierMappings({MappedA})}

\* Mapping configurations, with no shim or with the same shim in both
\* environments, with and without entry points.
MappingInputs ==
  {TransformOptions(e, <<ModTestTs>>, shims, shims,
                    TwoModuleLoader(main_globals, test_globals, test_mapped), m) :
     e \in {<<>>, <<ModTs>>},
     shims \in {<<>>} \cup {<<s>> : s \in Shims},
     main_globals \in {{}, GlobalNames},
     test_globals \in {{}, GlobalNames},
     test_mapped \in {{}, {MappedB}, {MappedA, MappedB}},
     m \in SpecifierMappings({MappedA, MappedB})}

DependencyInputs == ShimInputs \cup MappingInputs

\* Entry points, polyfills and synthetic modules.
FileLoader(main_polyfills, test_polyfills, maybe_source) ==
  Loader(<<ModTs, OtherTs, DataJson, ModTestTs>>, <<DepJs>>, <<>>, {ModTestTs}, {},
         (ModTs :> EsModule({}, main_polyfills, FALSE, <<>>))
           @@ (OtherTs :> EsModule({}, {}, FALSE, <<>>))
           @@ (DataJson :> SyntheticModule(maybe_source))
           @@ (ModTestTs :> EsModule({}, test_polyfills, FALSE, <<>>))
           @@ (DepJs :> EsModule({}, {}, FALSE, <<>>)),
         FALSE)

FileInputs ==
  {TransformOptions(e, t, <<>>, <<>>, FileLoader(mp, tp, src), <<>>) :
     e \in SeqsUpTo({ModTs, OtherTs, DataJson}, MaxEntryPoints),
     t \in {<<>>, <<ModTestTs>>, <<ModTs>>},
     mp \in {{}, {"Object.hasOwn"}},
     tp \in {{}, Polyfills},
     src \in {None, Some(<<"{", "}">>), Some(<<Bom, Backtick, "$", "{">>)}}

\* Competing declaration files of the remote module.
TypesDependencies ==
  {TypesDependency(s, r) : s \in {LocalDts, DepDts}, r \in {ModTs, OtherTs, DepJs}}

DirectiveWarning == <<"deno-shim-ignore directive ignored in ", OtherTs>>

TypesLoader(selected, ignored, directive_warnings) ==
  Loader(<<ModTs, OtherTs>>, <<DepJs>>,
         <<[code_specifier |-> DepJs,
            resolution |-> [selected |-> selected, ignored |-> ignored]]>>,
         {}, {},
         (ModTs :> EsModule({}, {}, FALSE, <<>>))
           @@ (OtherTs :> EsModule({}, {}, FALSE, directive_warnings))
           @@ (DepJs :> EsModule({}, {}, FALSE, <<>>))
           @@ (selected.specifier :> EsModule({}, {}, FALSE, <<>>)),
         FALSE)

TypesInputs ==
  {TransformOptions(<<ModTs>>, <<>>, <<>>, <<>>,
                    TypesLoader(selected, ignored, directive_warnings), <<>>) :
     directive_warnings \in {<<>>, <<DirectiveWarning>>},
     selected \in TypesDependencies,
     ignored \in SeqsUpTo(TypesDependencies, MaxIgnored)}

\* A load that fails, and a module on which a rewrite pass fails.
FailingInputs ==
  {TransformOptions(<<ModTs>>, <<>>, <<>>, <<>>,
                    Loader(<<ModTs>>, <<>>, <<>>, {}, {},
                           (ModTs :> EsModule({}, {}, rewrite_fails, <<>>)), load_error),
                    <<>>) :
     rewrite_fails \in BOOLEAN, load_error \in BOOLEAN}

Inputs == DependencyInputs \cup FileInputs \cup TypesInputs \cup FailingInputs

\* ------------------------------------------------------------ syntax nodes

\* A node is its path from the root: node[1] is the module, node[Len(node)] the
\* node itself, and each step names the kind of the node, the field of its
\* parent that holds it (the fields of a kind are numbered in source order) and,
\* for a unary expression, the operator.
Step(kind, slot, op) == [kind |-> kind, slot |-> slot, op |-> op]

Stmts == {"ExprStmt", "IfStmt", "VarDecl"}

Exprs == {"Ident", "MemberExpr", "BinExpr", "UnaryExpr", "CondExpr", "AssignExpr",
          "TsAsExpr", "TsTypeAssertion", "TsNonNullExpr", "TsConstAssertion"}

Types == {"TsTypeRef", "TsKeywordType"}

\* The fields of each kind that hold nodes, and the kinds each may hold.
Fields(kind) ==
  CASE kind = "Module" -> <<Stmts>>
    [] kind = "ExprStmt" -> <<Exprs>>
    [] kind = "IfStmt" -> <<Exprs, Stmts, Stmts>>
    [] kind = "VarDecl" -> <<{"VarDeclarator"}>>
    [] kind = "VarDeclarator" -> <<{"BindingIdent"}, Exprs>>
    [] kind = "BindingIdent" -> <<{"Ident"}, {"TsTypeAnn"}>>
    [] kind = "TsTypeAnn" -> <<Types>>
    [] kind = "TsTypeRef" -> <<{"Ident"}, {"TsTypeParamInstantiation"}>>
    [] kind = "TsTypeParamInstantiation" -> <<Types>>
    [] kind = "MemberExpr" -> <<Exprs, Exprs>>
    [] kind = "BinExpr" -> <<Exprs, Exprs>>
    [] kind = "UnaryExpr" -> <<Exprs>>
    [] kind = "CondExpr" -> <<Exprs, Exprs, Exprs>>
    [] kind = "AssignExpr" -> <<Exprs, Exprs>>
    [] kind = "TsAsExpr" -> <<Exprs, Types>>
    [] kind = "TsTypeAssertion" -> <<Types, Exprs>>
    [] kind = "TsNonNullExpr" -> <<Exprs>>
    [] kind = "TsConstAssertion" -> <<Exprs>>
    [] OTHER -> <<>>

UnaryOps(kind) == IF kind = "UnaryExpr" THEN {"typeof", "!"} ELSE {"-"}

\* The number of the field a kind names test, left or type_ann.
TestField == 1

LeftField == 1

TypeAnnField(kind) == IF kind = "TsAsExpr" THEN 2 ELSE 1

\* Spans: a node's fields split its span in three, in source order, and a
\* child fills its field.  Span(node, i) is the span of the i-th node of the
\* path, as <<lo, hi>>.
RECURSIVE Pow3(_)
Pow3(n) == IF n = 0 THEN 1 ELSE 3 * Pow3(n - 1)

Width(node, i) == Pow3(Len(node) - i)

RECURSIVE Lo(_, _)
Lo(node, i) == IF i = 1 THEN 0 ELSE Lo(node, i - 1) + (node[i].slot - 1) * Width(node, i)

Span(node, i) == <<Lo(node, i), Lo(node, i) + Width(node, i)>>

\* The span of the node in field `slot` of the i-th node of the path (i < Len(node)).
FieldSpan(node, i, slot) ==
  <<Lo(node, i) + (slot - 1) * Width(node, i + 1), Lo(node, i) + slot * Width(node, i + 1)>>

\* Span::contains
SpanContains(outer, inner) == outer[1] <= inner[1] /\ inner[2] <= outer[2]

is_directly_in_condition(node) ==
  IF Len(node) = 1 THEN FALSE
  ELSE LET n == Len(node)
           parent == node[n - 1]
       IN CASE parent.kind = "BinExpr" -> TRUE
            [] parent.kind = "IfStmt" -> TRUE
            [] parent.kind = "UnaryExpr" -> parent.op = "typeof"
            [] parent.kind = "CondExpr" ->
                 SpanContains(FieldSpan(node, n - 1, TestField), Span(node, n))
            [] OTHER -> FALSE

\* The loop over node.ancestors(), at the ancestor node[i].
RECURSIVE LeftHandWalk(_, _)
LeftHandWalk(node, i) ==
  IF i = 0 THEN FALSE
  ELSE IF node[i].kind = "AssignExpr"
  THEN SpanContains(FieldSpan(node, i, LeftField), Span(node, Len(node)))
  ELSE LeftHandWalk(node, i - 1)

\* The loop going on to the next assignment when this one's left side does not
\* hold the node.
RECURSIVE AnyLeftHandWalk(_, _)
AnyLeftHandWalk(node, i) ==
  IF i = 0 THEN FALSE
  ELSE IF node[i].kind = "AssignExpr"
          /\ SpanContains(FieldSpan(node, i, LeftField), Span(node, Len(node)))
  THEN TRUE
  ELSE AnyLeftHandWalk(node, i - 1)

is_in_any_left_hand_assignment(node) == AnyLeftHandWalk(node, Len(node) - 1)

is_in_left_hand_assignment(node) == LeftHandWalk(node, Len(node) - 1)

\* The arms of is_in_type's match.
AlwaysValueKinds ==
  {"ArrayLit", "ArrayPat", "ArrowExpr", "AssignExpr", "AssignPat", "AssignPatProp",
   "AssignProp", "AwaitExpr", "BinExpr", "BindingIdent", "BlockStmt", "BreakStmt",
   "CallExpr", "CatchClause", "Class", "ClassDecl", "ClassExpr", "ClassMethod",
   "ClassProp", "ComputedPropName", "CondExpr", "Constructor", "ContinueStmt",
   "DebuggerStmt", "Decorator", "DoWhileStmt", "EmptyStmt", "ExportAll", "ExportDecl",
   "ExportDefaultDecl", "ExportDefaultExpr", "ExportDefaultSpecifier",
   "ExportNamedSpecifier", "ExportNamespaceSpecifier", "ExprOrSpread", "ExprStmt",
   "FnDecl", "FnExpr", "ForInStmt", "ForOfStmt", "ForStmt", "Function", "GetterProp",
   "IfStmt", "ImportDecl", "ImportDefaultSpecifier", "ImportNamedSpecifier",
   "ImportStarAsSpecifier", "Invalid", "UnaryExpr", "UpdateExpr", "VarDecl",
   "VarDeclarator", "WhileStmt", "WithStmt", "YieldExpr", "JSXAttr",
   "JSXClosingElement", "JSXClosingFragment", "JSXElement", "JSXEmptyExpr",
   "JSXExprContainer", "JSXFragment", "JSXMemberExpr", "JSXNamespacedName",
   "JSXOpeningElement", "JSXOpeningFragment", "JSXSpreadChild", "JSXText",
   "KeyValuePatProp", "KeyValueProp", "LabeledStmt", "MetaPropExpr", "MethodProp",
   "Module", "NamedExport", "NewExpr", "ObjectLit", "ObjectPat", "OptChainExpr",
   "Param", "ParenExpr", "PrivateMethod", "PrivateName", "PrivateProp", "Regex",
   "RestPat", "ReturnStmt", "Script", "SeqExpr", "SetterProp", "SpreadElement",
   "StaticBlock", "Super", "SwitchCase", "SwitchStmt", "TaggedTpl", "ThisExpr",
   "ThrowStmt", "Tpl", "TplElement", "TryStmt", "TsEnumDecl", "TsEnumMember",
   "TsExportAssignment", "TsExternalModuleRef", "TsImportEqualsDecl", "TsModuleBlock",
   "TsModuleDecl", "TsNamespaceDecl", "TsNamespaceExportDecl"}

AlwaysTypeKinds ==
  {"TsArrayType", "TsCallSignatureDecl", "TsConditionalType", "TsConstAssertion",
   "TsConstructSignatureDecl", "TsConstructorType", "TsExprWithTypeArgs", "TsFnType",
   "TsGetterSignature", "TsImportType", "TsIndexSignature", "TsIndexedAccessType",
   "TsInferType", "TsInterfaceBody", "TsInterfaceDecl", "TsIntersectionType",
   "TsKeywordType", "TsLitType", "TsMappedType", "TsMethodSignature", "TsNonNullExpr",
   "TsOptionalType", "TsParamProp", "TsParenthesizedType", "TsPropertySignature",
   "TsQualifiedName", "TsRestType", "TsSetterSignature", "TsThisType", "TsTplLitType",
   "TsTupleElement", "TsTupleType", "TsTypeAliasDecl", "TsTypeAnn", "TsTypeLit",
   "TsTypeOperator", "TsTypeParam", "TsTypeParamDecl", "TsTypeParamInstantiation",
   "TsTypePredicate", "TsTypeQuery", "TsTypeRef", "TsUnionType"}

MaybeTypeKinds == {"TsTypeAssertion", "TsAsExpr"}

PassThroughKinds == {"BigInt", "Bool", "Null", "Number", "MemberExpr", "Str", "Ident"}

\* One turn of is_in_type's loop, with the loop's node at node[i]: the match on
\* the parent, which answers or leaves the walk to go on from the parent.
RECURSIVE InTypeWalk(_, _)
InTypeWalk(node, i) ==
  IF i = 1 THEN FALSE
  ELSE LET parent == node[i - 1]
       IN CASE parent.kind \in AlwaysValueKinds -> FALSE
            [] parent.kind \in AlwaysTypeKinds -> TRUE
            [] parent.kind \in MaybeTypeKinds ->
                 SpanContains(FieldSpan(node, i - 1, TypeAnnField(parent.kind)), Span(node, i))
            [] parent.kind \in PassThroughKinds -> InTypeWalk(node, i - 1)

\* The match with the as-expression among the kinds whose children are types.
RECURSIVE InTypeWalkAsIsType(_, _)
InTypeWalkAsIsType(node, i) ==
  IF i = 1 THEN FALSE
  ELSE LET parent == node[i - 1]
       IN CASE parent.kind \in AlwaysValueKinds -> FALSE
            [] parent.kind \in AlwaysTypeKinds \cup {"TsAsExpr"} -> TRUE
            [] parent.kind = "TsTypeAssertion" ->
                 SpanContains(FieldSpan(node, i - 1, TypeAnnField(parent.kind)), Span(node, i))
            [] parent.kind \in PassThroughKinds -> InTypeWalkAsIsType(node, i - 1)

is_in_type_as_is_type(node) == InTypeWalkAsIsType(node, Len(node))

is_in_type(node) == InTypeWalk(node, Len(node))

\* ------------------------------------------------------------------- state

VARIABLES
  pc,                \* where transform stands
  options,           \* the TransformOptions it was called with
  module_graph,      \* specifier -> ModuleRef, once the graph is built
  specifiers,        \* the Specifiers the graph build returned
  warnings,
  main_env_context,
  test_env_context,
  pending,           \* the specifiers the rewrite loop has still to visit
  loader_calls,      \* how often the loader has been asked for a module
  output,            \* Option<TransformOutput>: what transform returned
  node,              \* the syntax node under classification (its path from the root)
  answers,           \* the three predicates' results for it
  source,            \* a synthetic module's content
  file_text          \* the text emitted for it

vars == <<pc, options, module_graph, specifiers, warnings, main_env_context,
          test_env_context, pending, loader_calls, output, node, answers,
          source, file_text>>

transformVars == <<pc, options, module_graph, specifiers, warnings, main_env_context,
                   test_env_context, pending, loader_calls, output>>

classifierVars == <<node, answers>>

syntheticVars == <<source, file_text>>

\* A variable the run has not assigned yet.
Unset == <<>>

\* ------------------------------------------------- the graph, the contexts

\* A BTreeMap's iteration: the entries of the keys, in the specifiers' order.
RECURSIVE MappedEntries(_, _, _)
MappedEntries(specifier_mappings, keys, i) ==
  IF i > Len(SpecifierOrder) THEN <<>>
  ELSE (IF SpecifierOrder[i] \in keys
        THEN <<[specifier |-> SpecifierOrder[i], mapped |-> specifier_mappings[SpecifierOrder[i]]]>>
        ELSE <<>>) \o MappedEntries(specifier_mappings, keys, i + 1)

\* graph::ModuleGraph::build_with_specifiers: the graph and the partition of its
\* specifiers; a mapped specifier only the tests import goes to test.mapped.
build_with_specifiers(o) ==
  [module_graph |-> o.loader.modules,
   specifiers |->
     [local |-> o.loader.local, remote |-> o.loader.remote, types |-> o.loader.types,
      test_modules |-> o.loader.test_modules,
      main |-> [mapped |-> MappedEntries(o.specifier_mappings,
                                         (DOMAIN o.specifier_mappings) \ o.loader.test_mapped, 1)],
      test |-> [mapped |-> MappedEntries(o.specifier_mappings,
                                         (DOMAIN o.specifier_mappings) \cap o.loader.test_mapped, 1)]]]

FlattenGlobalNames(shims) ==
  UNION {{s.global_names[i] : i \in 1..Len(s.global_names)} : s \in {shims[j] : j \in 1..Len(shims)}}

EnvironmentContext(entry_points, mapped, shim_file_specifier, shims) ==
  [environment |->
     [entry_points |-> [i \in 1..Len(entry_points) |-> get_file_path(entry_points[i])],
      files |-> <<>>,
      dependencies |-> get_dependencies(mapped)],
   polyfills |-> {},
   shim_file_specifier |-> shim_file_specifier,
   shim_global_names |-> FlattenGlobalNames(shims),
   shims |-> shims,
   used_shim |-> FALSE]

\* The order of the rewrite loop: locals, remotes, selected declaration files.
RewriteOrder(sp) ==
  sp.local \o sp.remote \o [i \in 1..Len(sp.types) |-> sp.types[i].resolution.selected.specifier]

\* visitors::get_global_text_changes: a reference to a configured shim global is
\* rewritten to the shim import, and says that the shim was imported.
get_global_text_changes(module, shim_specifier, shim_global_names) ==
  LET imported_shim == module.globals \cap shim_global_names # {}
  IN [text_changes |-> IF imported_shim
                       THEN <<"import * as dntShim from \"">> \o shim_specifier \o <<"\";\n">>
                       ELSE <<>>,
      imported_shim |-> imported_shim]

\* text_changes::apply_text_changes, for the one change the model makes.
apply_text_changes(text, text_changes) == text_changes \o text

\* One turn of the rewrite loop on a parsed module, in its environment's context.
RewriteEs(env_context, specifier, module) ==
  LET shim_relative_specifier ==
        get_relative_specifier(get_file_path(specifier),
                               get_file_path(env_context.shim_file_specifier))
      result == get_global_text_changes(module, shim_relative_specifier,
                                        env_context.shim_global_names)
  IN [env_context EXCEPT
        !.polyfills = @ \cup module.polyfills,
        !.used_shim = @ \/ result.imported_shim,
        !.environment.files =
           Append(@, OutputFile(get_file_path(specifier),
                                apply_text_changes(module.text, result.text_changes)))]

RewriteSynthetic(env_context, specifier, module) ==
  [env_context EXCEPT
     !.environment.files =
        Append(@, OutputFile(get_file_path(specifier), SyntheticFileText(module.maybe_source[1])))]

\* Every module routed to the main environment.
IsNeverTestModule(specifier) == FALSE

IsTestModule(specifier) == specifier \in specifiers.test_modules

\* --------------------------------------------------------- classification

Classify(n) ==
  [is_directly_in_condition |-> is_directly_in_condition(n),
   is_in_left_hand_assignment |-> is_in_left_hand_assignment(n),
   is_in_type |-> is_in_type(n)]

\* The visitor starts at the module node.
InitClassifier ==
  /\ node = <<Step("Module", 1, "-")>>
  /\ answers = Classify(node)

\* The visitor goes down to a child of the node and asks the three predicates
\* about it.
Visit ==
  /\ Len(node) <= MaxDepth
  /\ LET fields == Fields(node[Len(node)].kind)
     IN \E slot \in 1..Len(fields) :
          \E kind \in fields[slot] :
            \E op \in UnaryOps(kind) :
              node' = Append(node, Step(kind, slot, op))
  /\ answers' = Classify(node')
  /\ UNCHANGED <<transformVars, syntheticVars>>

\* -------------------------------------------------------------- transform

InitTransform ==
  /\ pc = "validate"
  /\ options \in Inputs
  /\ module_graph = Unset
  /\ specifiers = Unset
  /\ warnings = <<>>
  /\ main_env_context = Unset
  /\ test_env_context = Unset
  /\ pending = <<>>
  /\ loader_calls = 0
  /\ output = None

\* transform without the entry point check.
ValidateNothing ==
  /\ pc = "validate"
  /\ pc' = "build_graph"
  /\ UNCHANGED <<options, module_graph, specifiers, warnings, main_env_context,
                 test_env_context, pending, loader_calls, output>>
  /\ UNCHANGED <<classifierVars, syntheticVars>>

\* The entry point check: no entry point is an error, before anything else.
Validate ==
  /\ pc = "validate"
  /\ pc' = IF options.entry_points = <<>> THEN "failed" ELSE "build_graph"
  /\ UNCHANGED <<options, module_graph, specifiers, warnings, main_env_context,
                 test_env_context, pending, loader_calls, output>>
  /\ UNCHANGED <<classifierVars, syntheticVars>>

BuildGraph ==
  /\ pc = "build_graph"
  /\ ~options.loader.load_error
  /\ LET built == build_with_specifiers(options)
     IN /\ module_graph' = built.module_graph
        /\ specifiers' = built.specifiers
  /\ loader_calls' = loader_calls + Cardinality(DOMAIN options.loader.modules)
  /\ pc' = "init_contexts"
  /\ UNCHANGED <<options, warnings, main_env_context, test_env_context, pending, output>>
  /\ UNCHANGED <<classifierVars, syntheticVars>>

BuildGraphFails ==
  /\ pc = "build_graph"
  /\ options.loader.load_error
  /\ loader_calls' = loader_calls + 1
  /\ pc' = "failed"
  /\ UNCHANGED <<options, module_graph, specifiers, warnings, main_env_context,
                 test_env_context, pending, output>>
  /\ UNCHANGED <<classifierVars, syntheticVars>>

InitContexts ==
  /\ pc = "init_contexts"
  /\ warnings' = get_declaration_warnings(specifiers)
  /\ main_env_context' = EnvironmentContext(options.entry_points, specifiers.main.mapped,
                                            SYNTHETIC_SPECIFIERS.shims, options.shims)
  /\ test_env_context' = EnvironmentContext(options.test_entry_points, specifiers.test.mapped,
                                            SYNTHETIC_TEST_SPECIFIERS.shims, options.test_shims)
  /\ pending' = RewriteOrder(specifiers)
  /\ pc' = "rewrite"
  /\ UNCHANGED <<options, module_graph, specifiers, loader_calls, output>>
  /\ UNCHANGED <<classifierVars, syntheticVars>>

RewriteEsModule ==
  /\ pc = "rewrite"
  /\ pending # <<>>
  /\ LET specifier == Head(pending)
         module == module_graph[specifier]
     IN /\ module.kind = "Es"
        /\ ~module.rewrite_fails
        /\ IF IsTestModule(specifier)
           THEN /\ test_env_context' = RewriteEs(test_env_context, specifier, module)
                /\ UNCHANGED main_env_context
           ELSE /\ main_env_context' = RewriteEs(main_env_context, specifier, module)
                /\ UNCHANGED test_env_context
  /\ warnings' = warnings \o module_graph[Head(pending)].directive_warnings
  /\ pending' = Tail(pending)
  /\ UNCHANGED <<pc, options, module_graph, specifiers, loader_calls, output>>
  /\ UNCHANGED <<classifierVars, syntheticVars>>

RewriteEsModuleFails ==
  /\ pc = "rewrite"
  /\ pending # <<>>
  /\ module_graph[Head(pending)].kind = "Es"
  /\ module_graph[Head(pending)].rewrite_fails
  /\ pc' = "failed"
  /\ UNCHANGED <<options, module_graph, specifiers, warnings, main_env_context,
                 test_env_context, pending, loader_calls, output>>
  /\ UNCHANGED <<classifierVars, syntheticVars>>

RewriteSyntheticModule ==
  /\ pc = "rewrite"
  /\ pending # <<>>
  /\ LET specifier == Head(pending)
         module == module_graph[specifier]
     IN /\ module.kind = "Synthetic"
        /\ module.maybe_source # None
        /\ IF IsTestModule(specifier)
           THEN /\ test_env_context' = RewriteSynthetic(test_env_context, specifier, module)
                /\ UNCHANGED main_env_context
           ELSE /\ main_env_context' = RewriteSynthetic(main_env_context, specifier, module)
                /\ UNCHANGED test_env_context
  /\ pending' = Tail(pending)
  /\ UNCHANGED <<pc, options, module_graph, specifiers, warnings, loader_calls, output>>
  /\ UNCHANGED <<classifierVars, syntheticVars>>

SkipSyntheticModule ==
  /\ pc = "rewrite"
  /\ pending # <<>>
  /\ module_graph[Head(pending)].kind = "Synthetic"
  /\ module_graph[Head(pending)].maybe_source = None
  /\ pending' = Tail(pending)
  /\ UNCHANGED <<pc, options, module_graph, specifiers, warnings, main_env_context,
                 test_env_context, loader_calls, output>>
  /\ UNCHANGED <<classifierVars, syntheticVars>>

AddPolyfillFileMain ==
  /\ pc = "rewrite"
  /\ pending = <<>>
  /\ main_env_context' = check_add_polyfill_file_to_environment(
                           main_env_context, get_file_path(SYNTHETIC_SPECIFIERS.polyfills))
  /\ pc' = "polyfill_test"
  /\ UNCHANGED <<options, module_graph, specifiers, warnings, test_env_context, pending,
                 loader_calls, output>>
  /\ UNCHANGED <<classifierVars, syntheticVars>>

AddPolyfillFileTest ==
  /\ pc = "polyfill_test"
  /\ test_env_context' = check_add_polyfill_file_to_environment(
                           test_env_context, get_file_path(SYNTHETIC_TEST_SPECIFIERS.polyfills))
  /\ pc' = "shim_main"
  /\ UNCHANGED <<options, module_graph, specifiers, warnings, main_env_context, pending,
                 loader_calls, output>>
  /\ UNCHANGED <<classifierVars, syntheticVars>>

AddShimFileMain ==
  /\ pc = "shim_main"
  /\ main_env_context' = check_add_shim_file_to_environment(
                           main_env_context, get_file_path(SYNTHETIC_SPECIFIERS.shims))
  /\ pc' = "shim_test"
  /\ UNCHANGED <<options, module_graph, specifiers, warnings, test_env_context, pending,
                 loader_calls, output>>
  /\ UNCHANGED <<classifierVars, syntheticVars>>

AddShimFileTest ==
  /\ pc = "shim_test"
  /\ test_env_context' = check_add_shim_file_to_environment(
                           test_env_context, get_file_path(SYNTHETIC_TEST_SPECIFIERS.shims))
  /\ pc' = "filter"
  /\ UNCHANGED <<options, module_graph, specifiers, warnings, main_env_context, pending,
                 loader_calls, output>>
  /\ UNCHANGED <<classifierVars, syntheticVars>>

\* The cross-environment filter and the return of the output.
FilterAndReturn ==
  /\ pc = "filter"
  /\ test_env_context' =
       [test_env_context EXCEPT !.environment.dependencies =
          FilterTestDependencies(@, main_env_context.environment.dependencies)]
  /\ output' = Some([main |-> main_env_context.environment,
                     test |-> test_env_context'.environment,
                     warnings |-> warnings])
  /\ pc' = "done"
  /\ UNCHANGED <<options, module_graph, specifiers, warnings, main_env_context, pending,
                 loader_calls>>
  /\ UNCHANGED <<classifierVars, syntheticVars>>

Init ==
  /\ InitTransform
  /\ node = <<>>
  /\ answers = Unset
  /\ source = <<>>
  /\ file_text = <<>>

Next ==
  \/ Validate
  \/ BuildGraph
  \/ BuildGraphFails
  \/ InitContexts
  \/ RewriteEsModule
  \/ RewriteEsModuleFails
  \/ RewriteSyntheticModule
  \/ SkipSyntheticModule
  \/ AddPolyfillFileMain
  \/ AddPolyfillFileTest
  \/ AddShimFileMain
  \/ AddShimFileTest
  \/ FilterAndReturn

Spec == Init /\ [][Next]_vars

InitClassify ==
  /\ InitClassifier
  /\ pc = "classify"
  /\ options = Unset
  /\ module_graph = Unset
  /\ specifiers = Unset
  /\ warnings = <<>>
  /\ main_env_context = Unset
  /\ test_env_context = Unset
  /\ pending = <<>>
  /\ loader_calls = 0
  /\ output = None
  /\ source = <<>>
  /\ file_text = <<>>

NextClassify == Visit

SpecClassify == InitClassify /\ [][NextClassify]_vars

\* The characters a synthetic module's content is made of here.
Chars == {Backtick, Backslash, "$", "{", Bom, "a"}

InitSynthetic ==
  /\ source \in SeqsUpTo(Chars, MaxLen)
  /\ file_text = <<>>
  /\ pc = "synthetic"
  /\ options = Unset
  /\ module_graph = Unset
  /\ specifiers = Unset
  /\ warnings = <<>>
  /\ main_env_context = Unset
  /\ test_env_context = Unset
  /\ pending = <<>>
  /\ loader_calls = 0
  /\ output = None
  /\ node = <<>>
  /\ answers = Unset

\* The Synthetic arm of the rewrite loop, on the content alone.
EmitSynthetic ==
  /\ pc = "synthetic"
  /\ file_text' = SyntheticFileText(source)
  /\ pc' = "emitted"
  /\ UNCHANGED <<source, options, module_graph, specifiers, warnings, main_env_context,
                 test_env_context, pending, loader_calls, output, classifierVars>>

NextSynthetic == EmitSynthetic

SpecSynthetic == InitSynthetic /\ [][NextSynthetic]_vars

\* ================================================================== claims

\* The contexts exist: transform is past their construction and has not failed.
ContextsBuilt == pc \in {"rewrite", "polyfill_test", "shim_main", "shim_test", "filter", "done"}

MainDependencies == main_env_context.environment.dependencies

TestDependencies == test_env_context.environment.dependencies

HasFile(env_context, file_path) ==
  \E i \in 1..Len(env_context.environment.files) :
    env_context.environment.files[i].file_path = file_path

StrictlySortedByName(deps) ==
  \A i \in 1..(Len(deps) - 1) : NameRank(deps[i].name) < NameRank(deps[i + 1].name)

NoDuplicatePair(deps) ==
  \A i, j \in 1..Len(deps) : i # j => deps[i] # deps[j]

\* C1: from the construction of the contexts to the output, through the shim
\* step and the cross-environment filter, each environment's dependency list is
\* strictly sorted by name and holds no (name, version) pair twice.
C1_DependenciesSortedAndDeduplicated ==
  ContextsBuilt =>
    /\ StrictlySortedByName(MainDependencies) /\ NoDuplicatePair(MainDependencies)
    /\ StrictlySortedByName(TestDependencies) /\ NoDuplicatePair(TestDependencies)

\* A warning about the reference dep of the code module.
IsWarningAbout(w, code_specifier, dep) ==
  Len(w) = 10 /\ w[2] = code_specifier /\ w[4] = dep.specifier /\ w[6] = dep.referrer

WarnedWith(code_specifier, dep, post_message) ==
  \E i \in 1..Len(warnings) :
    IsWarningAbout(warnings[i], code_specifier, dep) /\ warnings[i][10] = post_message

Warned(code_specifier, dep) ==
  \E i \in 1..Len(warnings) : IsWarningAbout(warnings[i], code_specifier, dep)

IsLocal(dep) == Scheme(dep.referrer) = "file"

StartsWith(text, prefix) ==
  Len(text) >= Len(prefix) /\ SubSeq(text, 1, Len(prefix)) = prefix

PolyfillImport(file_path, polyfill_file_path) ==
  <<"import '">> \o get_relative_specifier(file_path, polyfill_file_path) \o <<"';\n">>

\* The environment has its polyfill file, and every file of it at the path of
\* an entry point starts with the import of the polyfill file, before its text.
PolyfillFileAdded(env_context, polyfill_file_path) ==
  /\ HasFile(env_context, polyfill_file_path)
  /\ \A e \in 1..Len(env_context.environment.entry_points) :
       \A i \in 1..Len(env_context.environment.files) :
         LET file == env_context.environment.files[i]
         IN file.file_path = env_context.environment.entry_points[e] =>
              /\ StartsWith(file.file_text, PolyfillImport(file.file_path, polyfill_file_path))
              /\ Len(file.file_text) > Len(PolyfillImport(file.file_path, polyfill_file_path))

TestMappedDependencies == VersionedDependencies(specifiers.test.mapped)

\* C4: in the output no test dependency has the name and the version of a
\* dependency of main's final list, and a dependency of a test mapping that is
\* not in main's list with that very version (one sharing only its name with a
\* main dependency included) is in the test list.
C4_TestDependenciesFilteredByExactMatch ==
  pc = "done" =>
    LET main == output[1].main.dependencies
        test == output[1].test.dependencies
    IN /\ \A i \in 1..Len(test) : \A j \in 1..Len(main) :
            ~(test[i].name = main[j].name /\ test[i].version = main[j].version)
       /\ \A k \in 1..Len(TestMappedDependencies) :
            ~Contains(main, TestMappedDependencies[k]) => Contains(test, TestMappedDependencies[k])

\* A test dependency is kept beside a main dependency of its name and another
\* version, and the dependency a test shim pushed is removed because main's
\* shim pushed the same.
C4_Witness ==
  /\ pc = "done"
  /\ \E i \in 1..Len(output[1].test.dependencies) : \E j \in 1..Len(output[1].main.dependencies) :
       /\ output[1].test.dependencies[i].name = output[1].main.dependencies[j].name
       /\ output[1].test.dependencies[i].version # output[1].main.dependencies[j].version
  /\ test_env_context.used_shim
  /\ main_env_context.used_shim
  /\ \E i \in 1..Len(options.test_shims) :
       LET package == options.test_shims[i].package
       IN /\ package.version # None
          /\ \A k \in 1..Len(TestMappedDependencies) : TestMappedDependencies[k].name # package.name
          /\ \A k \in 1..Len(specifiers.main.mapped) : specifiers.main.mapped[k].mapped.name # package.name
          /\ Contains(output[1].main.dependencies, Dependency(package.name, package.version[1]))
          /\ ~Contains(output[1].test.dependencies, Dependency(package.name, package.version[1]))

\* The global name is referenced from a module only the tests reach, and from
\* no other module.
ReferencedOnlyFromTests(g) ==
  /\ \E s \in specifiers.test_modules : module_graph[s].kind = "Es" /\ g \in module_graph[s].globals
  /\ \A s \in (DOMAIN module_graph) \ specifiers.test_modules :
       module_graph[s].kind = "Es" => g \notin module_graph[s].globals

\* No module of the main environment references a global name of options.shims.
MainReferencesNoShim ==
  \A s \in (DOMAIN module_graph) \ specifiers.test_modules :
    module_graph[s].kind = "Es" => module_graph[s].globals \cap FlattenGlobalNames(options.shims) = {}

ShimFileInTestOnly ==
  /\ HasFile(test_env_context, get_file_path(SYNTHETIC_TEST_SPECIFIERS.shims))
  /\ ~HasFile(main_env_context, get_file_path(SYNTHETIC_SPECIFIERS.shims))
  /\ ~HasFile(main_env_context, get_file_path(SYNTHETIC_TEST_SPECIFIERS.shims))

ShimDependencyInTestOnly(package) ==
  /\ Contains(output[1].test.dependencies, Dependency(package.name, package.version[1]))
  /\ ~Contains(output[1].main.dependencies, Dependency(package.name, package.version[1]))

\* C5, as claimed: a global name of a test shim referenced only from test-only
\* modules puts the shim file into the test environment's files and not into
\* main's, and the shim package's dependency (when it has a version) into the
\* test list and not into main's.
C5_TestOnlyShimStaysInTest ==
  pc = "done" =>
    \A i \in 1..Len(options.test_shims) :
      LET shim == options.test_shims[i]
      IN \A n \in 1..Len(shim.global_names) :
           ReferencedOnlyFromTests(shim.global_names[n]) =>
             /\ ShimFileInTestOnly
             /\ shim.package.version # None => ShimDependencyInTestOnly(shim.package)

\* No mapped specifier of either environment names the package.
NotMapped(name) ==
  \A s \in DOMAIN options.specifier_mappings : options.specifier_mappings[s].name # name

\* No earlier test shim gives the package another version.
NoEarlierVersion(i) ==
  \A j \in 1..(i - 1) :
    LET earlier == options.test_shims[j].package
    IN earlier.name = options.test_shims[i].package.name /\ earlier.version # None =>
         earlier.version = options.test_shims[i].package.version

\* C5, amended: when a global name of a test shim is referenced only from
\* test-only modules and no main module references a global name of a main
\* shim, the shim file is in the test environment's files and not in main's;
\* and the shim package's dependency (when it has a version) is in the test
\* list and not in main's, provided that no mapped specifier names the package
\* and no earlier test shim gives it another version.
C5_TestOnlyShimStaysInTestUnlessListed ==
  pc = "done" =>
    \A i \in 1..Len(options.test_shims) :
      LET shim == options.test_shims[i]
      IN \A n \in 1..Len(shim.global_names) :
           ReferencedOnlyFromTests(shim.global_names[n]) /\ MainReferencesNoShim =>
             /\ ShimFileInTestOnly
             /\ shim.package.version # None /\ NotMapped(shim.package.name) /\ NoEarlierVersion(i) =>
                  ShimDependencyInTestOnly(shim.package)

\* A test module alone references the global of a versioned test shim, main is
\* configured with a shim too, and a mapping names another package.
C5_Witness ==
  /\ pc = "done"
  /\ MainReferencesNoShim
  /\ options.shims # <<>>
  /\ DOMAIN options.specifier_mappings # {}
  /\ \E i \in 1..Len(options.test_shims) :
       LET shim == options.test_shims[i]
       IN /\ shim.package.version # None
          /\ NotMapped(shim.package.name)
          /\ ReferencedOnlyFromTests(shim.global_names[1])
          /\ ShimDependencyInTestOnly(shim.package)
  /\ ShimFileInTestOnly

\* C9: with no entry point transform fails in its first step, whatever the
\* shims and mappings: the graph is never built, the loader never called, and
\* no output is returned.
C9_NoEntryPointFailsBeforeLoading ==
  options.entry_points = <<>> =>
    /\ pc \in {"validate", "failed"}
    /\ loader_calls = 0
    /\ module_graph = Unset
    /\ output = None

\* transform has failed for want of an entry point, with shims and mappings
\* configured.
C9_Witness ==
  /\ pc = "failed"
  /\ options.entry_points = <<>>
  /\ options.shims # <<>>
  /\ options.test_shims # <<>>
  /\ DOMAIN options.specifier_mappings # {}

\* The parent of the node the visitor is at.
Parent == node[Len(node) - 1]

\* What is claimed of is_directly_in_condition: the parent is a binary
\* expression, an if-statement or a ternary with the node in its test field, or
\* a typeof expression.
ClaimedDirectlyInCondition ==
  /\ Len(node) > 1
  /\ \/ Parent.kind = "BinExpr"
     \/ Parent.kind = "IfStmt" /\ node[Len(node)].slot = TestField
     \/ Parent.kind = "UnaryExpr" /\ Parent.op = "typeof"
     \/ Parent.kind = "CondExpr" /\ node[Len(node)].slot = TestField

\* C6: is_directly_in_condition is true exactly when the parent is a binary
\* expression, an if-statement of which the node is the test, a typeof
\* expression, or a ternary of which the node is the test; a branch of an
\* if-statement or of a ternary gets false.
C6_DirectlyInConditionIffTestOrOperand ==
  answers.is_directly_in_condition = ClaimedDirectlyInCondition

\* The ancestors of the node that are not of a pass-through kind.
Deciders == {j \in 1..(Len(node) - 1) : node[j].kind \notin PassThroughKinds}

\* The nearest of them.
Decider == CHOOSE j \in Deciders : \A k \in Deciders : k <= j

\* The node lies in field `slot` of its ancestor node[j].
InField(j, slot) == node[j + 1].slot = slot

DecidedInType ==
  /\ Deciders # {}
  /\ \/ node[Decider].kind \in AlwaysTypeKinds
     \/ node[Decider].kind = "TsAsExpr" /\ InField(Decider, 2)
     \/ node[Decider].kind = "TsTypeAssertion" /\ InField(Decider, 1)

\* const v: Array<Foo> = y, down to Foo and down to y.
ConstDeclFoo ==
  <<Step("Module", 1, "-"), Step("VarDecl", 1, "-"), Step("VarDeclarator", 1, "-"),
    Step("BindingIdent", 1, "-"), Step("TsTypeAnn", 2, "-"), Step("TsTypeRef", 1, "-"),
    Step("TsTypeParamInstantiation", 2, "-"), Step("TsTypeRef", 1, "-"), Step("Ident", 1, "-")>>

ConstDeclY ==
  <<Step("Module", 1, "-"), Step("VarDecl", 1, "-"), Step("VarDeclarator", 1, "-"),
    Step("Ident", 2, "-")>>

\* x as Foo, down to Foo and down to x.
AsExprFoo ==
  <<Step("Module", 1, "-"), Step("ExprStmt", 1, "-"), Step("TsAsExpr", 1, "-"),
    Step("TsTypeRef", 2, "-"), Step("Ident", 1, "-")>>

AsExprX ==
  <<Step("Module", 1, "-"), Step("ExprStmt", 1, "-"), Step("TsAsExpr", 1, "-"),
    Step("Ident", 1, "-")>>

\* C7: the nearest ancestor that is not a literal, an identifier or a member
\* expression decides is_in_type: false for an always-value kind, true for an
\* always-type kind, and for an as-expression or a type assertion true exactly
\* when the node lies in its type annotation; with no such ancestor the answer
\* is false.  Foo is in a type and y is not in const v: Array<Foo> = y, and Foo
\* is and x is not in x as Foo.
C7_InTypeDecidedByNearestNonPassThrough ==
  /\ answers.is_in_type = DecidedInType
  /\ is_in_type(ConstDeclFoo) /\ ~is_in_type(ConstDeclY)
  /\ is_in_type(AsExprFoo) /\ ~is_in_type(AsExprX)

\* The visitor is at the property of a member expression that is the operand of
\* an as-expression, and at the type of an as-expression.
C7_Witness ==
  /\ Len(node) >= 4
  /\ node[Len(node) - 2].kind = "TsAsExpr"
  /\ node[Len(node) - 1].kind = "MemberExpr"
  /\ node[Len(node) - 1].slot = 1
  /\ node[Len(node)].kind = "Ident"
  /\ answers.is_in_type = FALSE

\* The ancestors of the node that are assignment expressions.
Assignments == {j \in 1..(Len(node) - 1) : node[j].kind = "AssignExpr"}

NearestAssignment == CHOOSE j \in Assignments : \A k \in Assignments : k <= j

\* a = b, down to a and down to b.
AssignA ==
  <<Step("Module", 1, "-"), Step("ExprStmt", 1, "-"), Step("AssignExpr", 1, "-"),
    Step("Ident", 1, "-")>>

AssignB ==
  <<Step("Module", 1, "-"), Step("ExprStmt", 1, "-"), Step("AssignExpr", 1, "-"),
    Step("Ident", 2, "-")>>

\* C8: is_in_left_hand_assignment is true exactly when the node has an
\* assignment among its ancestors and lies in the left-hand side of the nearest
\* one, whatever an assignment further up holds on its left; a is and b is not
\* in a = b.
C8_LeftHandDecidedByNearestAssignment ==
  /\ answers.is_in_left_hand_assignment =
       (Assignments # {} /\ InField(NearestAssignment, LeftField))
  /\ is_in_left_hand_assignment(AssignA) /\ ~is_in_left_hand_assignment(AssignB)

\* The node is on the right of the nearest assignment, which is on the left of
\* an assignment further up.
C8_Witness ==
  /\ \E j, k \in Assignments :
       /\ j < k
       /\ k = NearestAssignment
       /\ InField(j, LeftField)
       /\ ~InField(k, LeftField)
  /\ answers.is_in_left_hand_assignment = FALSE

\* One pass over the content, left to right, that writes a backslash before
\* each backtick and before each dollar sign a brace follows.
RECURSIVE OnePass(_, _)
OnePass(s, i) ==
  IF i > Len(s) THEN <<>>
  ELSE IF s[i] = Backtick THEN <<Backslash, Backtick>> \o OnePass(s, i + 1)
  ELSE IF s[i] = "$" /\ i < Len(s) /\ s[i + 1] = "{"
  THEN <<Backslash, "$", "{">> \o OnePass(s, i + 2)
  ELSE <<s[i]>> \o OnePass(s, i + 1)

\* What the emitted file has between the backticks of its template literal.
Embedded == SubSeq(file_text, 3, Len(file_text) - 2)

\* C10, as claimed: for every content the text between the backticks of the
\* emitted file is the result of the one pass over the content.
C10_EmbeddedIsOnePass ==
  pc = "emitted" => Embedded = OnePass(source, 1)

\* C10, amended: for every content the text between the backticks of the
\* emitted file is the result of the one pass over the content, without the
\* byte order mark when the content starts with one.
C10_EmbeddedIsOnePassWithoutBom ==
  pc = "emitted" =>
    Embedded = IF source # <<>> /\ source[1] = Bom
               THEN Tail(OnePass(source, 1))
               ELSE OnePass(source, 1)

\* The content is a backslash, a backtick and an interpolation start.
C10_Witness ==
  /\ pc = "emitted"
  /\ source = <<Backslash, Backtick, "$", "{">>
  /\ Embedded = <<Backslash, Backslash, Backtick, Backslash, "$", "{">>

\* The visitor is at an identifier that is the operand of a non-null assertion
\* or of a const assertion.
AtAssertionOperand ==
  /\ Len(node) > 1
  /\ node[Len(node)].kind = "Ident"
  /\ Parent.kind \in {"TsNonNullExpr", "TsConstAssertion"}

\* C11: is_in_type is never true of a node in a value position: for the
\* identifier that is the operand of a non-null assertion or of a const
\* assertion it is false.
C11_AssertionOperandIsNotInType ==
  AtAssertionOperand => answers.is_in_type = FALSE

====
